---- MODULE Spec2Model ----
(***************************************************************************)
(* The portfolio backend of src/backend/server.js: one collection of       *)
(* Project documents behind six REST handlers.  A request body is a record *)
(* of JSON values, a stored document is what the Mongoose schema keeps of  *)
(* it, and every handler is an action that leaves its HTTP response in     *)
(* resp.  PUT is two steps (findById, then save), so that two updates of   *)
(* one document can interleave as the awaits of the handler allow.         *)
(***************************************************************************)
EXTENDS Integers, Sequences, FiniteSets, TLC

VARIABLES
    store,      \* the Project collection: a set of documents
    nextId,     \* how many ObjectIds the server has generated, plus one
    clock,      \* the last value Date.now() returned
    env,        \* process.env.NODE_ENV
    pending,    \* PUT requests between their findById and their save
    deleted,    \* the _ids findByIdAndDelete has removed (history)
    nreq,       \* how many requests have been received
    resp        \* the last request and the response it was given

vars == <<store, nextId, clock, env, pending, deleted, nreq, resp>>

-----------------------------------------------------------------------------
(* Bounds of the model.                                                    *)

MaxProjects == 2
MaxClock == 2
MaxRequests == 2
MaxInFlight == 2

-----------------------------------------------------------------------------
(* JSON values of a request body, and the values a document holds.         *)

Undefined == [t |-> "undefined", s |-> ""]
Null == [t |-> "null", s |-> ""]
Str(s) == [t |-> "string", s |-> s]
Arr(a) == [t |-> "array", a |-> a]

\* JavaScript truthiness: undefined, null and "" are falsy, every array
\* (the empty one too) and every other string is truthy.
Truthy(v) ==
    CASE v.t = "undefined" -> FALSE
      [] v.t = "null" -> FALSE
      [] v.t = "string" -> v.s # ""
      [] OTHER -> TRUE

\* a || null
OrNull(v) == IF Truthy(v) THEN v ELSE Null

\* Array.isArray(x) ? x : [x]
ToArray(v) == IF v.t = "array" THEN v ELSE Arr(<<v.s>>)

\* The string of n copies of c.
RECURSIVE Rep(_, _)
Rep(n, c) ==
    IF n = 0 THEN ""
    ELSE IF n % 2 = 1 THEN c \o Rep(n - 1, c)
    ELSE LET half == Rep(n \div 2, c) IN half \o half

\* String.prototype.trim, which the schema's trim: true applies to title.
RECURSIVE TrimLeft(_)
TrimLeft(s) ==
    IF Len(s) > 0 /\ Head(s) = " " THEN TrimLeft(Tail(s)) ELSE s

RECURSIVE TrimRight(_)
TrimRight(s) ==
    IF Len(s) > 0 /\ SubSeq(s, Len(s), Len(s)) = " "
    THEN TrimRight(SubSeq(s, 1, Len(s) - 1))
    ELSE s

Trim(s) == TrimLeft(TrimRight(s))

StartsWith(s, p) == Len(s) >= Len(p) /\ SubSeq(s, 1, Len(p)) = p

-----------------------------------------------------------------------------
(* The schema.                                                             *)

TitleMaxLength == 200
DescriptionMaxLength == 2000
ImpactMaxLength == 500

Categories ==
    {"AI/Computer Vision", "Data Analytics", "NLP/AI", "Security/Mobile",
     "Web Development"}

\* /^https?:\/\/(www\.)?github\.com\//
GithubPattern(v) ==
    \E scheme \in {"http", "https"}, www \in {"", "www."} :
        StartsWith(v, scheme \o "://" \o www \o "github.com/")

\* /^https?:\/\//
UrlPattern(v) ==
    \E scheme \in {"http", "https"} : StartsWith(v, scheme \o "://")

\* One message of a ValidationError: the schema's text and, for the enum
\* message, the value that replaces {VALUE}.
Msg(text) == [msg |-> text, value |-> ""]

TitleRequired == Msg("Please provide a project title")
TitleTooLong == Msg("Title cannot exceed 200 characters")
DescriptionRequired == Msg("Please provide a description")
DescriptionTooLong == Msg("Description cannot exceed 2000 characters")
CategoryRequired == Msg("Please select a category")
CategoryInvalid(v) == [msg |-> "{VALUE} is not a valid category", value |-> v]
TechnologiesRequired == Msg("Please add at least one technology")
TechnologiesEmpty == Msg("Technologies array cannot be empty")
HighlightsEmpty == Msg("Add at least one highlight")
GithubInvalid == Msg("Please provide a valid GitHub URL")
LiveInvalid == Msg("Please provide a valid URL")
ImpactTooLong == Msg("Impact description cannot exceed 500 characters")

\* The first failing validator of each path, as document.validate() reports
\* it.  A required string fails when it is missing or empty; the other
\* validators are skipped on undefined and run on every other value, the
\* empty array included.
TitleErrors(v) ==
    IF v.t # "string" \/ v.s = "" THEN {TitleRequired}
    ELSE IF Len(v.s) > TitleMaxLength THEN {TitleTooLong}
    ELSE {}

DescriptionErrors(v) ==
    IF v.t # "string" \/ v.s = "" THEN {DescriptionRequired}
    ELSE IF Len(v.s) > DescriptionMaxLength THEN {DescriptionTooLong}
    ELSE {}

CategoryErrors(v) ==
    IF v.t # "string" \/ v.s = "" THEN {CategoryRequired}
    ELSE IF v.s \notin Categories THEN {CategoryInvalid(v.s)}
    ELSE {}

\* TechnologiesErrors without the length validator.
TechnologiesErrorsRequiredOnly(v) ==
    IF v.t # "array" THEN {TechnologiesRequired} ELSE {}

TechnologiesErrors(v) ==
    IF v.t # "array" THEN {TechnologiesRequired}
    ELSE IF ~(Len(v.a) > 0) THEN {TechnologiesEmpty}
    ELSE {}

HighlightsErrors(v) ==
    IF v.t = "array" /\ ~(Len(v.a) > 0) THEN {HighlightsEmpty} ELSE {}

\* GithubErrors without its validator.
GithubErrorsUnchecked(v) == {}

GithubErrors(v) ==
    IF ~Truthy(v) THEN {}
    ELSE IF GithubPattern(v.s) THEN {}
    ELSE {GithubInvalid}

LiveErrors(v) ==
    IF ~Truthy(v) THEN {}
    ELSE IF UrlPattern(v.s) THEN {}
    ELSE {LiveInvalid}

ImpactErrors(v) ==
    IF v.t = "string" /\ Len(v.s) > ImpactMaxLength THEN {ImpactTooLong}
    ELSE {}

\* Object.values(error.errors).map(err => err.message) of the document's
\* ValidationError; empty when the document is valid.
Validate(doc) ==
    TitleErrors(doc.title) \cup DescriptionErrors(doc.description)
        \cup CategoryErrors(doc.category)
        \cup TechnologiesErrors(doc.technologies)
        \cup HighlightsErrors(doc.highlights)
        \cup GithubErrors(doc.github) \cup LiveErrors(doc.live)
        \cup ImpactErrors(doc.impact)

\* The String setter of the title path (trim: true).
SetTitle(v) == IF v.t = "string" THEN Str(Trim(v.s)) ELSE v

-----------------------------------------------------------------------------
(* Identifiers and time.                                                   *)

\* ObjectId giving every document the same id.
ObjectIdReused(n) == Rep(23, "0") \o "1"

\* The n-th ObjectId the server generates, as its 24 hex digits.
ObjectId(n) == Rep(23, "0") \o SubSeq("0123456789", n + 1, n + 1)

HexDigits == "0123456789abcdefABCDEF"

IsHex(c) == \E i \in 1..Len(HexDigits) : SubSeq(HexDigits, i, i) = c

\* IsValid accepting every non-empty parameter.
IsValidNonEmpty(id) == Len(id) > 0

\* mongoose.Types.ObjectId.isValid on a route parameter: 24 hex digits.
IsValid(id) ==
    Len(id) = 24 /\ \A i \in 1..24 : IsHex(SubSeq(id, i, i))

\* The values a call of Date.now() can return after one that returned c.
Now(c) == {t \in c..MaxClock : t <= c + 1}

-----------------------------------------------------------------------------
(* Documents.                                                              *)

BodyFields ==
    {"title", "description", "category", "technologies", "highlights",
     "image", "github", "live", "impact"}

\* new Project({...}) of the create handler; createdAt and updatedAt take
\* their default, Date.now.
NewProject(body, id, t) ==
    [_id |-> id,
     title |-> SetTitle(body.title),
     description |-> body.description,
     category |-> body.category,
     technologies |-> ToArray(body.technologies),
     highlights |-> IF Truthy(body.highlights)
                    THEN ToArray(body.highlights)
                    ELSE Arr(<<>>),
     image |-> OrNull(body.image),
     github |-> OrNull(body.github),
     live |-> OrNull(body.live),
     impact |-> OrNull(body.impact),
     createdAt |-> t,
     updatedAt |-> t,
     __v |-> 0]

\* projectSchema.pre('save'): this.updatedAt = Date.now().
PreSave(doc, t) == [doc EXCEPT !.updatedAt = t]

\* UpdateFields with the nullable fields assigned only when truthy, like
\* the others.
UpdateFieldsTruthy(project, body) ==
    [project EXCEPT
        !.title = IF Truthy(body.title) THEN SetTitle(body.title) ELSE @,
        !.description = IF Truthy(body.description) THEN body.description ELSE @,
        !.category = IF Truthy(body.category) THEN body.category ELSE @,
        !.technologies = IF Truthy(body.technologies)
                         THEN ToArray(body.technologies) ELSE @,
        !.highlights = IF Truthy(body.highlights)
                       THEN ToArray(body.highlights) ELSE @,
        !.image = IF Truthy(body.image) THEN body.image ELSE @,
        !.github = IF Truthy(body.github) THEN body.github ELSE @,
        !.live = IF Truthy(body.live) THEN body.live ELSE @,
        !.impact = IF Truthy(body.impact) THEN body.impact ELSE @]

\* The field assignments of the update handler.
UpdateFields(project, body) ==
    [project EXCEPT
        !.title = IF Truthy(body.title) THEN SetTitle(body.title) ELSE @,
        !.description = IF Truthy(body.description) THEN body.description ELSE @,
        !.category = IF Truthy(body.category) THEN body.category ELSE @,
        !.technologies = IF Truthy(body.technologies)
                         THEN ToArray(body.technologies) ELSE @,
        !.highlights = IF Truthy(body.highlights)
                       THEN ToArray(body.highlights) ELSE @,
        !.image = IF body.image # Undefined THEN body.image ELSE @,
        !.github = IF body.github # Undefined THEN body.github ELSE @,
        !.live = IF body.live # Undefined THEN body.live ELSE @,
        !.impact = IF body.impact # Undefined THEN body.impact ELSE @]

\* The paths save() writes: those whose value differs from the fetched one.
ModifiedPaths(fetched, doc) == {f \in DOMAIN doc : doc[f] # fetched[f]}

\* Replacing an array path makes save() check and increment the version key.
ArrayPaths == {"technologies", "highlights"}

Versioned(modified) == modified \cap ArrayPaths # {}

\* ApplyDelta writing the whole document back, not the modified paths.
ApplyDeltaWhole(current, doc, modified) ==
    [f \in DOMAIN current |->
        IF f = "__v"
        THEN IF Versioned(modified) THEN current.__v + 1 ELSE current.__v
        ELSE doc[f]]

\* The update save() sends: $set of the modified paths, $inc of __v when an
\* array was replaced.
ApplyDelta(current, doc, modified) ==
    [f \in DOMAIN current |->
        IF f \in modified THEN doc[f]
        ELSE IF f = "__v" /\ Versioned(modified) THEN current.__v + 1
        ELSE current[f]]

FindById(id) == {d \in store : d._id = id}

-----------------------------------------------------------------------------
(* Responses.                                                              *)

NoId == ""
NoBody == [f \in BodyFields |-> Undefined]
NoQuery == [category |-> Undefined, sort |-> Undefined]
NoData == <<>>
NoError == ""

\* error.message of a failed store operation, of a save() that lost the
\* version check, of a save() whose document is gone, of the body parser.
StoreError == "store operation failed"
VersionError == "No matching document found for id and version"
DocumentNotFoundError == "No document found for query"
ParseError == "Unexpected token in JSON"
Generic == "Something went wrong"

\* The request (op, rid, id, body) and the envelope res.status(...).json(...)
\* gave it; errors is empty and error is "" when the envelope has no such
\* key, data holds the document or the documents of the envelope.  queried
\* tells whether the handler reached the store.
Response(op, rid, id, body, status, message, errors, data, error, queried) ==
    [op |-> op, rid |-> rid, id |-> id, body |-> body, query |-> NoQuery,
     status |-> status, success |-> status \in {200, 201},
     message |-> message, errors |-> errors, data |-> data, error |-> error,
     queried |-> queried]

\* The same for the two list routes, whose input is the query.
ListResponse(op, rid, query, status, message, data, error) ==
    [Response(op, rid, NoId, NoBody, status, message, {}, data, error, TRUE)
        EXCEPT !.query = query]

-----------------------------------------------------------------------------
(* The requests the model sends.                                           *)

LongTitle == Rep(TitleMaxLength + 1, "x")
LongDescription == Rep(DescriptionMaxLength + 1, "x")
LongImpact == Rep(ImpactMaxLength + 1, "x")

ValidBody ==
    [title |-> Str("B"), description |-> Str("d"), category |-> Str("NLP/AI"),
     technologies |-> Arr(<<"js">>), highlights |-> Arr(<<"h1">>),
     image |-> Undefined, github |-> Undefined, live |-> Undefined,
     impact |-> Undefined]

With(body, f, v) == [body EXCEPT ![f] = v]

\* Create bodies: a valid one, and it with one field changed.
AllCreateBodies ==
    {ValidBody}
    \cup {With(ValidBody, "title", v) :
            v \in {Undefined, Str(" "), Str(" A "), Str("a"), Str(LongTitle)}}
    \cup {With(ValidBody, "description", v) :
            v \in {Str(""), Str(LongDescription)}}
    \cup {With(ValidBody, "category", v) :
            v \in {Undefined, Str("Not A Real Category"),
                   Str("Web Development")}}
    \cup {With(ValidBody, "technologies", v) :
            v \in {Undefined, Arr(<<>>), Str("js")}}
    \cup {With(ValidBody, "highlights", v) :
            v \in {Undefined, Arr(<<>>), Str("h1")}}
    \cup {With(ValidBody, "image", v) : v \in {Str("a.png")}}
    \cup {With(ValidBody, "github", v) :
            v \in {Str(""), Str("https://evil.com"),
                   Str("https://github.com/me/repo")}}
    \cup {With(ValidBody, "live", v) :
            v \in {Str("ftp://x"), Str("https://x.io")}}
    \cup {With(ValidBody, "impact", v) : v \in {Str("big"), Str(LongImpact)}}

\* The create bodies sent between the other requests.
CreateBodies ==
    {ValidBody}
    \cup {With(ValidBody, "title", v) : v \in {Undefined, Str(" A ")}}
    \cup {With(ValidBody, "category", v) : v \in {Str("Web Development")}}
    \cup {With(ValidBody, "technologies", v) : v \in {Arr(<<>>)}}
    \cup {With(ValidBody, "highlights", v) : v \in {Undefined}}
    \cup {With(ValidBody, "category", v) : v \in {Str("Not A Real Category")}}

\* Update bodies: the empty one, and it with one field supplied.
UpdateBodies ==
    {NoBody}
    \cup {With(NoBody, "title", v) : v \in {Str("A"), Str("B")}}
    \cup {With(NoBody, "category", v) : v \in {Str("bogus")}}
    \cup {With(NoBody, "technologies", v) : v \in {Arr(<<"py">>), Arr(<<>>)}}
    \cup {With(NoBody, "highlights", v) : v \in {Arr(<<"h2">>)}}
    \cup {With(NoBody, "impact", v) : v \in {Str(""), Str("big")}}

\* Route parameters: the ids the server can have issued, and one that has
\* not the shape of an identifier.
MalformedIds == {"not-an-id"}

RequestIds == {ObjectId(n) : n \in 1..MaxProjects} \cup MalformedIds

AllCategoryQueries ==
    {Undefined, Str(""), Str("NLP/AI"), Str("Web Development"), Str("bogus")}

AllSortQueries == {Undefined, Str("title"), Str("newest"), Str("oldest")}

CategoryQueries == {Undefined, Str("NLP/AI")}

SortQueries == {Undefined, Str("title")}

Environments == {"production", "development"}

-----------------------------------------------------------------------------
(* Queries of the list handlers.                                           *)

\* The characters of the titles in play, in code-unit order.
CodeUnits == " ABCDEFGHIJKLMNOPQRSTUVWXYZabcdefghijklmnopqrstuvwxyz"

Code(c) == CHOOSE i \in 1..Len(CodeUnits) : SubSeq(CodeUnits, i, i) = c

\* The store's order on strings: by code units, a proper prefix first.
RECURSIVE StrLess(_, _)
StrLess(a, b) ==
    IF b = "" THEN FALSE
    ELSE IF a = "" THEN TRUE
    ELSE IF Head(a) = Head(b) THEN StrLess(Tail(a), Tail(b))
    ELSE Code(Head(a)) < Code(Head(b))

\* The filter object of GET /api/projects.
MatchesFilter(d, category) == Truthy(category) => d.category = category

\* SortBy ignoring the sort parameter.
SortByNewest(sort) == [key |-> "createdAt", dir |-> -1]

\* The sort object of GET /api/projects.
SortBy(sort) ==
    IF sort = Str("title") THEN [key |-> "title", dir |-> 1]
    ELSE IF sort = Str("newest") THEN [key |-> "createdAt", dir |-> -1]
    ELSE [key |-> "createdAt", dir |-> -1]

\* Whether .sort(sortBy) may return a before b.
MayPrecede(a, b, sortBy) ==
    IF sortBy.key = "title"
    THEN IF sortBy.dir = 1 THEN ~StrLess(b.title.s, a.title.s)
         ELSE ~StrLess(a.title.s, b.title.s)
    ELSE IF sortBy.dir = 1 THEN a.createdAt <= b.createdAt
         ELSE a.createdAt >= b.createdAt

\* The results find().sort(sortBy) can give over the documents docs: every
\* listing of them in the order of sortBy (equal keys in any order).
Sorted(docs, sortBy) ==
    {l \in [1..Cardinality(docs) -> docs] :
        /\ \A i, j \in DOMAIN l : i # j => l[i] # l[j]
        /\ \A i, j \in DOMAIN l : i < j => MayPrecede(l[i], l[j], sortBy)}

-----------------------------------------------------------------------------
(* The handlers.                                                           *)

Receive == nreq < MaxRequests /\ nreq' = nreq + 1

\* GET /api/projects
GetProjects(category, sort) ==
    /\ Receive
    /\ \E ok \in BOOLEAN :
        IF ok
        THEN \E projects \in
                 Sorted({d \in store : MatchesFilter(d, category)},
                        SortBy(sort)) :
                resp' = ListResponse("list", nreq + 1,
                                     [category |-> category, sort |-> sort],
                                     200, "", projects, NoError)
        ELSE resp' = ListResponse("list", nreq + 1,
                                  [category |-> category, sort |-> sort],
                                  500, "Error fetching projects", NoData,
                                  StoreError)
    /\ UNCHANGED <<store, nextId, clock, env, pending, deleted>>

\* GET /api/projects/:id
GetProject(id) ==
    /\ Receive
    /\ IF ~IsValid(id)
       THEN resp' = Response("get", nreq + 1, id, NoBody, 400,
                             "Invalid project ID", {}, NoData, NoError, FALSE)
       ELSE \E ok \in BOOLEAN :
            IF ~ok
            THEN resp' = Response("get", nreq + 1, id, NoBody, 500,
                                  "Error fetching project", {}, NoData,
                                  StoreError, TRUE)
            ELSE IF FindById(id) = {}
            THEN resp' = Response("get", nreq + 1, id, NoBody, 404,
                                  "Project not found", {}, NoData, NoError,
                                  TRUE)
            ELSE \E project \in FindById(id) :
                    resp' = Response("get", nreq + 1, id, NoBody, 200, "",
                                     {}, <<project>>, NoError, TRUE)
    /\ UNCHANGED <<store, nextId, clock, env, pending, deleted>>

\* POST /api/projects
PostProject(body) ==
    /\ Receive
    /\ IF ~Truthy(body.title) \/ ~Truthy(body.description)
            \/ ~Truthy(body.category) \/ ~Truthy(body.technologies)
       THEN /\ resp' = Response("create", nreq + 1, NoId, body, 400,
                    "Please provide all required fields: title, description, category, technologies",
                    {}, NoData, NoError, FALSE)
            /\ UNCHANGED <<store, nextId, clock>>
       ELSE /\ nextId <= MaxProjects
            /\ nextId' = nextId + 1
            /\ \E t0 \in Now(clock) :
               LET newProject == NewProject(body, ObjectId(nextId), t0) IN
               IF Validate(newProject) # {}
               THEN /\ resp' = Response("create", nreq + 1, NoId, body, 400,
                                        "Validation error",
                                        Validate(newProject), NoData,
                                        NoError, FALSE)
                    /\ clock' = t0
                    /\ UNCHANGED store
               ELSE \E t1 \in Now(t0), ok \in BOOLEAN :
                    /\ clock' = t1
                    /\ IF ok
                       THEN /\ store' = store \cup {PreSave(newProject, t1)}
                            /\ resp' = Response("create", nreq + 1, NoId,
                                   body, 201, "Project created successfully",
                                   {}, <<PreSave(newProject, t1)>>, NoError,
                                   TRUE)
                       ELSE /\ resp' = Response("create", nreq + 1, NoId,
                                   body, 500, "Error creating project", {},
                                   NoData, StoreError, TRUE)
                            /\ UNCHANGED store
    /\ UNCHANGED <<env, pending, deleted>>

\* PUT /api/projects/:id, up to the await of findById.  A document that is
\* found leaves the request in flight; every other outcome answers it.
PutFindById(id, body) ==
    /\ Receive
    /\ IF ~IsValid(id)
       THEN /\ resp' = Response("update", nreq + 1, id, body, 400,
                                "Invalid project ID", {}, NoData, NoError,
                                FALSE)
            /\ UNCHANGED pending
       ELSE \E ok \in BOOLEAN :
            IF ~ok
            THEN /\ resp' = Response("update", nreq + 1, id, body, 500,
                                     "Error updating project", {}, NoData,
                                     StoreError, TRUE)
                 /\ UNCHANGED pending
            ELSE IF FindById(id) = {}
            THEN /\ resp' = Response("update", nreq + 1, id, body, 404,
                                     "Project not found", {}, NoData,
                                     NoError, TRUE)
                 /\ UNCHANGED pending
            ELSE /\ Cardinality(pending) < MaxInFlight
                 /\ \E project \in FindById(id) :
                        pending' = pending \cup
                            {[rid |-> nreq + 1, id |-> id, body |-> body,
                              project |-> project]}
                 /\ UNCHANGED resp
    /\ UNCHANGED <<store, nextId, clock, env, deleted>>

\* PUT /api/projects/:id, from the field assignments to the response.
PutSave(p) ==
    LET project == UpdateFields(p.project, p.body) IN
    /\ pending' = pending \ {p}
    /\ IF Validate(project) # {}
       THEN /\ resp' = Response("update", p.rid, p.id, p.body, 400,
                                "Validation error", Validate(project),
                                NoData, NoError, TRUE)
            /\ UNCHANGED <<store, clock>>
       ELSE \E t \in Now(clock) :
            LET updatedProject == PreSave(project, t)
                modified == ModifiedPaths(p.project, updatedProject)
                matched == {d \in FindById(p.id) :
                               Versioned(modified) => d.__v = p.project.__v}
            IN
            /\ clock' = t
            /\ IF modified = {}
               THEN /\ resp' = Response("update", p.rid, p.id, p.body, 200,
                                        "Project updated successfully", {},
                                        <<updatedProject>>, NoError, TRUE)
                    /\ UNCHANGED store
               ELSE \E ok \in BOOLEAN :
                    IF ~ok
                    THEN /\ resp' = Response("update", p.rid, p.id, p.body,
                                        500, "Error updating project", {},
                                        NoData, StoreError, TRUE)
                         /\ UNCHANGED store
                    ELSE IF matched # {}
                    THEN /\ store' = (store \ matched) \cup
                                {ApplyDelta(d, updatedProject, modified) :
                                    d \in matched}
                         /\ resp' = Response("update", p.rid, p.id, p.body,
                                        200, "Project updated successfully",
                                        {},
                                        <<ApplyDelta(p.project,
                                                     updatedProject,
                                                     modified)>>,
                                        NoError, TRUE)
                    ELSE IF Versioned(modified)
                    THEN /\ resp' = Response("update", p.rid, p.id, p.body,
                                        500, "Error updating project", {},
                                        NoData, VersionError, TRUE)
                         /\ UNCHANGED store
                    ELSE \* The document is gone: save() throws in the
                         \* releases that check the matched count and
                         \* succeeds silently in those that do not.
                         /\ \/ resp' = Response("update", p.rid, p.id,
                                        p.body, 500,
                                        "Error updating project", {}, NoData,
                                        DocumentNotFoundError, TRUE)
                            \/ resp' = Response("update", p.rid, p.id,
                                        p.body, 200,
                                        "Project updated successfully", {},
                                        <<updatedProject>>, NoError, TRUE)
                         /\ UNCHANGED store
    /\ UNCHANGED <<nextId, env, deleted, nreq>>

\* DELETE /api/projects/:id
DeleteProject(id) ==
    /\ Receive
    /\ IF ~IsValid(id)
       THEN /\ resp' = Response("delete", nreq + 1, id, NoBody, 400,
                                "Invalid project ID", {}, NoData, NoError,
                                FALSE)
            /\ UNCHANGED <<store, deleted>>
       ELSE \E ok \in BOOLEAN :
            IF ~ok
            THEN /\ resp' = Response("delete", nreq + 1, id, NoBody, 500,
                                     "Error deleting project", {}, NoData,
                                     StoreError, TRUE)
                 /\ UNCHANGED <<store, deleted>>
            ELSE IF FindById(id) = {}
            THEN /\ resp' = Response("delete", nreq + 1, id, NoBody, 404,
                                     "Project not found", {}, NoData,
                                     NoError, TRUE)
                 /\ UNCHANGED <<store, deleted>>
            ELSE \E project \in FindById(id) :
                 /\ store' = store \ {project}
                 /\ deleted' = deleted \cup {id}
                 /\ resp' = Response("delete", nreq + 1, id, NoBody, 200,
                                     "Project deleted successfully", {},
                                     <<project>>, NoError, TRUE)
    /\ UNCHANGED <<nextId, clock, env, pending>>

\* GET /api/projects/category/:category
GetProjectsByCategory(category) ==
    /\ Receive
    /\ \E ok \in BOOLEAN :
        IF ok
        THEN \E projects \in
                 Sorted({d \in store : d.category = category},
                        [key |-> "createdAt", dir |-> -1]) :
                resp' = ListResponse("category", nreq + 1,
                                     [category |-> category,
                                      sort |-> Undefined],
                                     200, "", projects, NoError)
        ELSE resp' = ListResponse("category", nreq + 1,
                                  [category |-> category, sort |-> Undefined],
                                  500, "Error fetching projects by category",
                                  NoData, StoreError)
    /\ UNCHANGED <<store, nextId, clock, env, pending, deleted>>

\* The error handling middleware, reached when a middleware before the
\* routes fails: express.json() on a body that is not JSON.
ErrorMiddleware ==
    /\ Receive
    /\ resp' = Response("fault", nreq + 1, NoId, NoBody, 500,
                        "Internal server error", {}, NoData,
                        IF env = "development" THEN ParseError ELSE Generic,
                        FALSE)
    /\ UNCHANGED <<store, nextId, clock, env, pending, deleted>>

-----------------------------------------------------------------------------
(* The server.                                                             *)

NoResponse ==
    Response("none", 0, NoId, NoBody, 0, "", {}, NoData, NoError, FALSE)

\* A document an earlier run of the server created from ValidBody.
SeedProject == NewProject(ValidBody, ObjectId(1), 0)

\* The server starts on the collection as it was left: empty, or holding
\* a document created before.
Init ==
    /\ store \in {{}, {SeedProject}}
    /\ nextId = Cardinality(store) + 1
    /\ clock = 0
    /\ env \in Environments
    /\ pending = {}
    /\ deleted = {}
    /\ nreq = 0
    /\ resp = NoResponse

Next ==
    \/ \E category \in CategoryQueries, sort \in SortQueries :
            GetProjects(category, sort)
    \/ \E id \in RequestIds : GetProject(id)
    \/ \E body \in CreateBodies : PostProject(body)
    \/ \E id \in RequestIds, body \in UpdateBodies : PutFindById(id, body)
    \/ \E p \in pending : PutSave(p)
    \/ \E id \in RequestIds : DeleteProject(id)
    \/ \E category \in CategoryQueries : GetProjectsByCategory(category)
    \/ ErrorMiddleware

Spec == Init /\ [][Next]_vars

\* The create handler alone, over every create body.
CreateNext == \E body \in AllCreateBodies : PostProject(body)

CreateSpec == Init /\ [][CreateNext]_vars

\* The list handler over every query, on the collections that creating and
\* deleting give.
ListNext ==
    \/ \E category \in AllCategoryQueries, sort \in AllSortQueries :
            GetProjects(category, sort)
    \/ \E body \in AllCreateBodies : PostProject(body)
    \/ \E id \in RequestIds : DeleteProject(id)

ListSpec == Init /\ [][ListNext]_vars

-----------------------------------------------------------------------------
(* What the specification says of a body, a document and a step.           *)

RequiredFields == {"title", "description", "category", "technologies"}

NullableFields == {"image", "github", "live", "impact"}

MissingRequired(body) == {f \in RequiredFields : ~Truthy(body[f])}

\* The fields of a create body that break a rule of the data model: a
\* required field missing, a category outside the enum, a github value
\* that is no GitHub URL.
Offending(body) ==
    MissingRequired(body)
    \cup {f \in {"category"} :
            Truthy(body.category) /\ body.category.s \notin Categories}
    \cup {f \in {"github"} :
            Truthy(body.github) /\ ~GithubPattern(body.github.s)}

\* A list value with at least one element (a scalar stands for the list of
\* itself).
NonEmptyList(v) ==
    \/ v.t = "string" /\ v.s # ""
    \/ v.t = "array" /\ Len(v.a) > 0

\* A create body with every required field and valid optional fields.
Acceptable(body) ==
    /\ body.title.t = "string" /\ Trim(body.title.s) # ""
    /\ Len(body.title.s) <= TitleMaxLength
    /\ body.description.t = "string" /\ body.description.s # ""
    /\ Len(body.description.s) <= DescriptionMaxLength
    /\ body.category.t = "string" /\ body.category.s \in Categories
    /\ NonEmptyList(body.technologies)
    /\ body.highlights = Undefined \/ NonEmptyList(body.highlights)
    /\ ~Truthy(body.github) \/ GithubPattern(body.github.s)
    /\ ~Truthy(body.live) \/ UrlPattern(body.live.s)
    /\ body.impact.t = "string" => Len(body.impact.s) <= ImpactMaxLength

\* The field each message of the schema is about.
FieldOf(e) ==
    CASE e.msg \in {TitleRequired.msg, TitleTooLong.msg} -> "title"
      [] e.msg \in {DescriptionRequired.msg, DescriptionTooLong.msg} ->
            "description"
      [] e.msg \in {CategoryRequired.msg, CategoryInvalid("").msg} ->
            "category"
      [] e.msg \in {TechnologiesRequired.msg, TechnologiesEmpty.msg} ->
            "technologies"
      [] e.msg = HighlightsEmpty.msg -> "highlights"
      [] e.msg = GithubInvalid.msg -> "github"
      [] e.msg = LiveInvalid.msg -> "live"
      [] e.msg = ImpactTooLong.msg -> "impact"

\* The invariants of a stored record.
RecordOk(d) ==
    /\ d.technologies.t = "array" /\ Len(d.technologies.a) > 0
    /\ d.category.t = "string" /\ d.category.s \in Categories
    /\ d.updatedAt >= d.createdAt

Ids(docs) == {d._id : d \in docs}

\* This step answers a request it has just received.
Answers(op) == nreq' = nreq + 1 /\ resp'.rid = nreq' /\ resp'.op = op

\* This step answers the update p, which was in flight.
AnswersUpdate(p) == p \in pending /\ p \notin pending'

\* The store answered (the response is not that of a failed store call).
StoreUp == resp'.error # StoreError

-----------------------------------------------------------------------------
(* The claims.                                                             *)

\* C1: a create request with all required fields and valid optional fields
\* returns 201 and adds exactly one record, under an id no existing record
\* has, whose createdAt and updatedAt are equal.
C1_CreateAddsOneRecordWithEqualTimestamps ==
    [][(Answers("create") /\ Acceptable(resp'.body) /\ StoreUp) =>
        /\ resp'.status = 201
        /\ \E d \in store' :
            /\ d._id \notin Ids(store)
            /\ store' = store \cup {d}
            /\ resp'.data = <<d>>
            /\ d.createdAt = d.updatedAt]_vars

\* C2: highlights is optional on create: a create request that is valid
\* and omits highlights returns 201 and its record is stored.
C2_CreateWithoutHighlightsAccepted ==
    [][(Answers("create") /\ Acceptable(resp'.body)
            /\ resp'.body.highlights = Undefined /\ StoreUp) =>
        /\ resp'.status = 201
        /\ \E d \in store' : d \notin store /\ resp'.data = <<d>>]_vars

C4_StoredRecordsValid == \A d \in store : RecordOk(d)

\* C4's case: an update with an empty technologies list was rejected and
\* the store holds a record that an earlier request wrote.
C4_Witness ==
    /\ resp.op = "update"
    /\ resp.status = 400
    /\ resp.body.technologies = Arr(<<>>)
    /\ \E d \in store : d.updatedAt > d.createdAt

\* C5: a successful update changes only the fields its body supplies: the
\* other fields, _id and createdAt keep their value, updatedAt does not
\* decrease and no other record changes; a nullable field supplied as null
\* or "" is applied (when nobody else wrote the record between the
\* findById and the save of the update; C10 is about the other case).
C5_UpdateChangesOnlySuppliedFields ==
    [][\A p \in pending :
        (AnswersUpdate(p) /\ resp'.status = 200) =>
        \A cur \in FindById(p.id) :
        \E d \in store' :
            /\ store' = (store \ {cur}) \cup {d}
            /\ d._id = cur._id
            /\ d.createdAt = cur.createdAt
            /\ d.updatedAt >= cur.updatedAt
            /\ \A f \in BodyFields :
                p.body[f] = Undefined => d[f] = cur[f]
            /\ cur = p.project =>
                \A f \in NullableFields :
                    p.body[f] # Undefined => d[f] = p.body[f]]_vars

\* C5's case: an update of impact alone, to "", was applied.
C5_Witness ==
    /\ resp.op = "update"
    /\ resp.status = 200
    /\ resp.body = With(NoBody, "impact", Str(""))
    /\ \E d \in store : d._id = resp.id /\ d.impact = Str("")

\* C6: deleting an existing id returns 200 with the removed record and
\* removes exactly that record; every later get, update or delete of that
\* id returns 404, and no later create is given that id.
C6_DeletedIdStaysGone ==
    [][/\ (Answers("delete") /\ resp'.status = 200) =>
            \E d \in store :
                /\ d._id = resp'.id
                /\ resp'.data = <<d>>
                /\ store' = store \ {d}
                /\ resp'.id \in deleted'
       /\ \A op \in {"get", "update", "delete"} :
            (Answers(op) /\ resp'.id \in deleted /\ StoreUp) =>
                resp'.status = 404
       /\ Ids(store') \cap deleted' = {}]_vars

\* C6's case: a get of an id that was deleted before.
C6_Witness ==
    /\ resp.op = "get"
    /\ resp.id \in deleted
    /\ resp.status = 404

\* C7: get, update and delete answer a malformed id 400 without reaching
\* the store and a well-formed id of no record 404 after a store query;
\* a request answered 400 or 404 leaves every stored record as it was.
C7_RejectionsLeaveStoreUnchanged ==
    [][/\ \A op \in {"get", "update", "delete"} :
            Answers(op) =>
                /\ resp'.id \in MalformedIds =>
                        resp'.status = 400 /\ ~resp'.queried
                /\ (resp'.id \notin MalformedIds /\ FindById(resp'.id) = {}
                        /\ StoreUp) => resp'.status = 404
                /\ resp'.status = 404 =>
                        resp'.queried /\ FindById(resp'.id) = {}
       /\ (resp' # resp /\ resp'.op \in {"get", "update", "delete"}
                /\ resp'.status \in {400, 404}) => store' = store]_vars

\* C7's case: an update of an existing record rejected by validation.
C7_Witness ==
    /\ resp.op = "update"
    /\ resp.status = 400
    /\ resp.queried
    /\ resp.errors # {}
    /\ \E d \in store : d._id = resp.id

\* C8: the list returns exactly the stored records whose category equals
\* the filter (all of them without a filter), by ascending title when
\* sort is title and by descending creation time otherwise, and changes
\* no record.
C8_ListFiltersAndSorts ==
    [][(Answers("list") /\ resp'.status = 200) =>
        LET q == resp'.query
            l == resp'.data
        IN  /\ {l[i] : i \in DOMAIN l} =
                    {d \in store :
                        Truthy(q.category) => d.category = q.category}
            /\ Len(l) = Cardinality({l[i] : i \in DOMAIN l})
            /\ \A i, j \in DOMAIN l :
                i < j =>
                    IF q.sort = Str("title")
                    THEN ~StrLess(l[j].title.s, l[i].title.s)
                    ELSE l[i].createdAt >= l[j].createdAt
            /\ store' = store]_vars

\* C8's case: a list by title of two records whose title order is not
\* their creation order.
C8_Witness ==
    /\ resp.op = "list"
    /\ resp.status = 200
    /\ resp.query.sort = Str("title")
    /\ Len(resp.data) = 2
    /\ StrLess(resp.data[1].title.s, resp.data[2].title.s)
    /\ resp.data[1].createdAt < resp.data[2].createdAt

\* C9: in production mode a 500 response holds only a generic message,
\* never the underlying error's.
C9_ProductionHidesErrorDetail ==
    (resp.status = 500 /\ env = "production") =>
        resp.error \in {NoError, Generic}

\* Two updates of one record interleave at the save of p when the record
\* is no longer the one p fetched.
Interleaved(p) ==
    /\ AnswersUpdate(p)
    /\ FindById(p.id) # {}
    /\ FindById(p.id) # {p.project}
    /\ Validate(UpdateFields(p.project, p.body)) = {}
    /\ StoreUp

====
